---------------------------- MODULE Spec2Model ----------------------------
(***************************************************************************)
(* A model of translink-parser.js, the UQ Lakes station bus tracker: the   *)
(* prompt loop of busTracker, the static joins and filters, the live-feed  *)
(* cache with its asynchronous file operations, and the live merges.       *)
(*                                                                         *)
(* JavaScript strings that the program compares lexically, searches or     *)
(* converts (times, dates, route names, prompt answers) are sequences of   *)
(* one-character strings; identifiers that are only tested with === are    *)
(* plain strings.  JavaScript values whose type decides a branch are       *)
(* tagged records [t |-> "array", v |-> ...], [t |-> "promise"], ...       *)
(***************************************************************************)
EXTENDS Integers, Sequences, FiniteSets, TLC

(***************************************************************************)
(* Bounds of the model.                                                    *)
(***************************************************************************)
\* longest answer typed at the route prompt
MaxInputLen == 2
\* most queries of one session
MaxQueries == 2
\* most times the clock is advanced in one session
MaxTicks == 2
\* most invalid answers in a row at the repeat prompt
MaxReprompts == 2
\* longest departure list handed to a join or filter under test
MaxDepartures == 2
\* longest calendar table handed to filterUsingCalendar under test
MaxCalendar == 2
\* longest stop-time table handed to joinTime under test
MaxStops == 2
\* longest live entity list handed to a live join under test
MaxEntities == 2

(***************************************************************************)
(* Characters and strings.                                                 *)
(***************************************************************************)
Digits == <<"0", "1", "2", "3", "4", "5", "6", "7", "8", "9">>

IsDigit(c) == \E i \in 1..10 : Digits[i] = c

DigitVal(c) == (CHOOSE i \in 1..10 : Digits[i] = c) - 1

\* UTF-16 code unit of the characters the model uses
Code(c) ==
    IF IsDigit(c) THEN 48 + DigitVal(c)
    ELSE CASE c = " " -> 32
           [] c = "-" -> 45
           [] c = "." -> 46
           [] c = ":" -> 58
           [] c = "E" -> 69
           [] c = "N" -> 78
           [] c = "O" -> 79
           [] c = "P" -> 80
           [] c = "S" -> 83
           [] c = "Y" -> 89
           [] c = "a" -> 97
           [] c = "e" -> 101
           [] c = "n" -> 110
           [] c = "o" -> 111
           [] c = "s" -> 115
           [] c = "y" -> 121

RECURSIVE StrLess(_, _)
\* a < b on JavaScript strings: lexicographic by code unit, a proper prefix first
StrLess(a, b) ==
    IF b = <<>> THEN FALSE
    ELSE IF a = <<>> THEN TRUE
    ELSE IF Code(Head(a)) < Code(Head(b)) THEN TRUE
    ELSE IF Code(Head(a)) > Code(Head(b)) THEN FALSE
    ELSE StrLess(Tail(a), Tail(b))

\* a <= b and a >= b on JavaScript strings
StrLe(a, b) == a = b \/ StrLess(a, b)

StrGe(a, b) == a = b \/ StrLess(b, a)

\* String.prototype.includes: sub occurs in s as a substring
StringIncludes(s, sub) ==
    \E i \in 1..(Len(s) + 1) :
        /\ i + Len(sub) - 1 <= Len(s)
        /\ SubSeq(s, i, i + Len(sub) - 1) = sub

\* Array.prototype.includes
ArrayIncludes(arr, x) == \E i \in 1..Len(arr) : arr[i] = x

\* String.prototype.toLowerCase on the letters the model uses
LowerChar(c) ==
    CASE c = "Y" -> "y"
      [] c = "E" -> "e"
      [] c = "S" -> "s"
      [] c = "N" -> "n"
      [] c = "O" -> "o"
      [] OTHER -> c

ToLowerCase(s) == [i \in 1..Len(s) |-> LowerChar(s[i])]

RECURSIVE Dec(_)
\* the decimal digits of a natural number, as String(n) gives them
Dec(n) == IF n < 10 THEN <<Digits[n + 1]>> ELSE Dec(n \div 10) \o <<Digits[(n % 10) + 1]>>

RECURSIVE DigitsValue(_)
\* the value of a string of decimal digits
DigitsValue(s) ==
    IF s = <<>> THEN 0 ELSE 10 * DigitsValue(SubSeq(s, 1, Len(s) - 1)) + DigitVal(s[Len(s)])

AllDigits(s) == \A i \in 1..Len(s) : IsDigit(s[i])

RECURSIVE Pow10(_)
Pow10(k) == IF k = 0 THEN 1 ELSE 10 * Pow10(k - 1)

\* all sequences over S of length at most n
SeqsUpTo(S, n) == UNION {[1..k -> S] : k \in 0..n}

(***************************************************************************)
(* JavaScript values and numbers.                                          *)
(***************************************************************************)
Undefined == [t |-> "undefined"]

Promise == [t |-> "promise"]

Arr(v) == [t |-> "array", v |-> v]

Str(v) == [t |-> "string", v |-> v]

Obj(v) == [t |-> "object", v |-> v]

\* the length property: a number for an array or a string, undefined otherwise
JsLength(x) ==
    IF x.t \in {"array", "string"} THEN [t |-> "number", v |-> Len(x.v)] ELSE Undefined

\* !x for the result of JsLength: undefined and 0 are falsy
Not(x) == x.t = "undefined" \/ (x.t = "number" /\ x.v = 0)

RECURSIVE TrimLeft(_)
TrimLeft(s) == IF s # <<>> /\ Head(s) = " " THEN TrimLeft(Tail(s)) ELSE s

RECURSIVE TrimRight(_)
TrimRight(s) ==
    IF s # <<>> /\ s[Len(s)] = " " THEN TrimRight(SubSeq(s, 1, Len(s) - 1)) ELSE s

NaN == [nan |-> TRUE]

\* the number m / 10^k
Num(m, k) == [nan |-> FALSE, m |-> m, k |-> k]

\* an unsigned StrDecimalLiteral: digits with at most one ".", at least one digit
UnsignedNumber(s) ==
    LET dots == {i \in 1..Len(s) : s[i] = "."}
        ds == SelectSeq(s, IsDigit)
    IN  IF \/ ds = <<>>
           \/ Cardinality(dots) > 1
           \/ \E i \in 1..Len(s) : ~IsDigit(s[i]) /\ s[i] # "."
        THEN NaN
        ELSE Num(DigitsValue(ds),
                 IF dots = {} THEN 0 ELSE Len(s) - (CHOOSE i \in dots : TRUE))

\* ToNumber applied to a string: white space trimmed, "" is 0, an optional
\* sign, a decimal literal; anything else is NaN
ToNumber(s) ==
    LET b == TrimRight(TrimLeft(s))
    IN  IF b = <<>> THEN Num(0, 0)
        ELSE IF Head(b) = "-"
             THEN LET u == UnsignedNumber(Tail(b))
                  IN  IF u.nan THEN NaN ELSE Num(0 - u.m, u.k)
             ELSE UnsignedNumber(b)

\* isNaN(s), s <= c, s > c, s - c for a string s and an integer c
IsNaN(s) == ToNumber(s).nan

NumLe(n, c) == n.m <= c * Pow10(n.k)

NumGt(n, c) == n.m > c * Pow10(n.k)

NumMinus(n, c) == Num(n.m - c * Pow10(n.k), n.k)

\* arr[n] for a number n: an element for an integer index in range, else undefined
Index(arr, n) ==
    IF n.m % Pow10(n.k) = 0 /\ n.m \div Pow10(n.k) \in 0..(Len(arr) - 1)
    THEN Str(arr[(n.m \div Pow10(n.k)) + 1])
    ELSE Undefined

(***************************************************************************)
(* Global constants of the program.                                        *)
(***************************************************************************)
buses ==
    << <<"6", "6">>, <<"1", "9", "2">>, <<"1", "6", "9">>, <<"2", "0", "9">>,
       <<"2", "9">>, <<"P", "3", "3", "2">>, <<"1", "3", "9">>, <<"2", "8">> >>

lakesStopId == <<"1853", "1878", "1882", "1947">>

days == <<"sunday", "monday", "tuesday", "wednesday", "thursday", "friday", "saturday">>

(***************************************************************************)
(* Date objects.  A Date is its time value in minutes since the epoch      *)
(* (seconds and milliseconds stay 0 in this program); local time is the    *)
(* time value plus the zone's offset tz, in minutes (zones without         *)
(* daylight saving).                                                       *)
(***************************************************************************)
\* days from 1970-01-01 to the civil date y-m-d
DaysFromCivil(y, m, d) ==
    LET yy == IF m <= 2 THEN y - 1 ELSE y
        era == yy \div 400
        yoe == yy - era * 400
        mp == IF m > 2 THEN m - 3 ELSE m + 9
        doy == (153 * mp + 2) \div 5 + d - 1
        doe == yoe * 365 + yoe \div 4 - yoe \div 100 + doy
    IN  era * 146097 + doe - 719468

\* str.split(sep): the parts of str between occurrences of the character sep
RECURSIVE Split(_, _)
Split(s, sep) ==
    IF \A i \in 1..Len(s) : s[i] # sep THEN <<s>>
    ELSE LET i == CHOOSE j \in 1..Len(s) :
                      s[j] = sep /\ \A k \in 1..(j - 1) : s[k] # sep
         IN  <<SubSeq(s, 1, i - 1)>> \o Split(SubSeq(s, i + 1, Len(s)), sep)

RECURSIVE Join(_)
\* parts.join("")
Join(parts) == IF parts = <<>> THEN <<>> ELSE Head(parts) \o Join(Tail(parts))

\* new Date("YYYY-MM-DD"): a date-only form is midnight UTC of that date
NewDate(dateString) ==
    LET p == Split(dateString, "-")
    IN  1440 * DaysFromCivil(DigitsValue(p[1]), DigitsValue(p[2]), DigitsValue(p[3]))

\* date.setHours(h): the hour of the local time, its day and minutes kept
SetHours(date, tz, h) ==
    LET local == date + tz
    IN  (local \div 1440) * 1440 + 60 * h + (local % 60) - tz

\* date.setMinutes(m): the minutes of the local time; m >= 60 carries
SetMinutes(date, tz, m) ==
    LET local == date + tz
    IN  (local \div 60) * 60 + m - tz

GetHours(date, tz) == ((date + tz) % 1440) \div 60

GetMinutes(date, tz) == (date + tz) % 60

GetDay(date, tz) == (((date + tz) \div 1440) + 4) % 7

\* padZero(n) = ('0' + n).slice(-2)
padZero(n) ==
    LET s == <<"0">> \o Dec(n)
    IN  SubSeq(s, Len(s) - 1, Len(s))

\* add10Mins(date): the Date after setMinutes(getMinutes() + 10), and the
\* string it returns
Add10MinsDate(date, tz) == SetMinutes(date, tz, GetMinutes(date, tz) + 10)

add10Mins(date, tz) ==
    LET d == Add10MinsDate(date, tz)
    IN  padZero(GetHours(d, tz)) \o <<":">> \o padZero(GetMinutes(d, tz)) \o <<":", "0", "0">>

\* convertTime(timestamp): the local 24-hour clock time HH:mm:ss of an epoch
\* time in seconds
convertTime(timestamp, tz) ==
    LET local == (timestamp + 60 * tz) % 86400
    IN  padZero(local \div 3600) \o <<":">> \o padZero((local % 3600) \div 60)
            \o <<":">> \o padZero(local % 60)

(***************************************************************************)
(* The joins and filters.  A departure is a record with the fields         *)
(* RouteShortName, RouteLongName, ServiceID, TripID, HeadingSign, to which *)
(* the later joins add ScheduledArrivalTime, LiveArrivalTime and           *)
(* LivePosition; LivePosition, an object or a string, is a tagged value.   *)
(***************************************************************************)
null == [null |-> TRUE]

NoLiveData == <<"N", "o", " ", "L", "i", "v", "e", " ", "D", "a", "t", "a">>

\* arr.find(P), given the set I of the indices whose element satisfies P: the
\* first of them, 0 when there is none
FindIndex(I) ==
    IF I = {} THEN 0 ELSE CHOOSE i \in I : \A j \in I : i <= j

NotNull(item) == item # null

\* {...r, f: v}
With(r, f, v) == [g \in DOMAIN r \cup {f} |-> IF g = f THEN v ELSE r[g]]

joinRouteTrip(routes, trips) ==
    LET joined == [i \in 1..Len(trips) |->
            LET trip == trips[i]
                Match(rt) == rt.route_id = trip.route_id
                r == FindIndex({ix \in 1..Len(routes) : Match(routes[ix])})
            IN  IF r # 0
                THEN [RouteShortName |-> routes[r].route_short_name,
                      RouteLongName |-> routes[r].route_long_name,
                      ServiceID |-> trip.service_id,
                      TripID |-> trip.trip_id,
                      HeadingSign |-> trip.trip_headsign]
                ELSE null]
    IN  SelectSeq(joined, NotNull)

joinTimeStrictEnd(routes, stops, startTime, endTime) ==
    LET joined == [i \in 1..Len(stops) |->
            LET stop == stops[i]
                Match(route) == /\ stop.trip_id = route.TripID
                                /\ StrGe(stop.arrival_time, startTime)
                                /\ StrLess(stop.arrival_time, endTime)
                r == FindIndex({ix \in 1..Len(routes) : Match(routes[ix])})
            IN  IF r # 0
                THEN With(routes[r], "ScheduledArrivalTime", stop.arrival_time)
                ELSE null]
    IN  SelectSeq(joined, NotNull)

joinTime(routes, stops, startTime, endTime) ==
    LET joined == [i \in 1..Len(stops) |->
            LET stop == stops[i]
                Match(route) == /\ stop.trip_id = route.TripID
                                /\ StrGe(stop.arrival_time, startTime)
                                /\ StrLe(stop.arrival_time, endTime)
                r == FindIndex({ix \in 1..Len(routes) : Match(routes[ix])})
            IN  IF r # 0
                THEN With(routes[r], "ScheduledArrivalTime", stop.arrival_time)
                ELSE null]
    IN  SelectSeq(joined, NotNull)

filterUsingCalendarStrictEnd(routes, calendarArray, date, day) ==
    LET Keep(route) ==
            LET Match(entry) == /\ entry.service_id = route.ServiceID
                                /\ entry[day] = "1"
                                /\ StrGe(date, entry.start_date)
                                /\ StrLess(date, entry.end_date)
            IN  FindIndex({ix \in 1..Len(calendarArray) : Match(calendarArray[ix])}) # 0
    IN  SelectSeq(routes, Keep)

filterUsingCalendar(routes, calendarArray, date, day) ==
    LET Keep(route) ==
            LET Match(entry) == /\ entry.service_id = route.ServiceID
                                /\ entry[day] = "1"
                                /\ StrGe(date, entry.start_date)
                                /\ StrLe(date, entry.end_date)
            IN  FindIndex({ix \in 1..Len(calendarArray) : Match(calendarArray[ix])}) # 0
    IN  SelectSeq(routes, Keep)

joinLivePositionLastMatch(routes, posArray) ==
    [i \in 1..Len(routes) |->
        LET route == routes[i]
            I == {j \in 1..Len(posArray) : posArray[j].vehicle.trip.tripId = route.TripID}
            e == IF I = {} THEN 0 ELSE CHOOSE j \in I : \A k \in I : k <= j
        IN  [RouteShortName |-> route.RouteShortName,
             RouteLongName |-> route.RouteLongName,
             ServiceID |-> route.ServiceID,
             HeadingSign |-> route.HeadingSign,
             ScheduledArrivalTime |-> route.ScheduledArrivalTime,
             LiveArrivalTime |-> route.LiveArrivalTime,
             LivePosition |-> IF e # 0 THEN Obj(posArray[e].vehicle.position)
                              ELSE Str(NoLiveData)]]

joinLivePosition(routes, posArray) ==
    [i \in 1..Len(routes) |->
        LET route == routes[i]
            Match(entity) == entity.vehicle.trip.tripId = route.TripID
            e == FindIndex({ix \in 1..Len(posArray) : Match(posArray[ix])})
        IN  [RouteShortName |-> route.RouteShortName,
             RouteLongName |-> route.RouteLongName,
             ServiceID |-> route.ServiceID,
             HeadingSign |-> route.HeadingSign,
             ScheduledArrivalTime |-> route.ScheduledArrivalTime,
             LiveArrivalTime |-> route.LiveArrivalTime,
             LivePosition |-> IF e # 0 THEN Obj(posArray[e].vehicle.position)
                              ELSE Str(NoLiveData)]]

IsLakesStop(entry) == ArrayIncludes(lakesStopId, entry.stopId)

joinLiveTime(routes, timeArray, tz) ==
    [i \in 1..Len(routes) |->
        LET route == routes[i]
            Match(entity) == entity.tripUpdate.trip.tripId = route.TripID
            e == FindIndex({ix \in 1..Len(timeArray) : Match(timeArray[ix])})
            stopTimes == IF e # 0 THEN timeArray[e].tripUpdate.stopTimeUpdate ELSE <<>>
            t == FindIndex({ix \in 1..Len(stopTimes) : IsLakesStop(stopTimes[ix])})
        IN  With(route, "LiveArrivalTime",
                 IF t # 0 THEN convertTime(stopTimes[t].departure.time, tz) ELSE NoLiveData)]

\* sortByTime(a, b) < 0, and Array.prototype.sort with it: a stable sort
SortsBefore(a, b) == StrLess(a.ScheduledArrivalTime, b.ScheduledArrivalTime)

RECURSIVE InsertSorted(_, _)
InsertSorted(sorted, x) ==
    IF sorted = <<>> THEN <<x>>
    ELSE IF SortsBefore(x, sorted[Len(sorted)])
         THEN InsertSorted(SubSeq(sorted, 1, Len(sorted) - 1), x) \o <<sorted[Len(sorted)]>>
         ELSE sorted \o <<x>>

RECURSIVE Sort(_)
Sort(arr) ==
    IF arr = <<>> THEN <<>>
    ELSE InsertSorted(Sort(SubSeq(arr, 1, Len(arr) - 1)), arr[Len(arr)])

(***************************************************************************)
(* The environment: the static-data files, the live feeds, the cache files *)
(* and what the user may type.                                             *)
(***************************************************************************)
\* static-data/routes.txt: four routes, three of them station buses
RoutesFile ==
    << [route_id |-> "R66", route_short_name |-> <<"6", "6">>, route_long_name |-> "UQ Lakes - RBWH"],
       [route_id |-> "R6", route_short_name |-> <<"6">>, route_long_name |-> "City - Valley"],
       [route_id |-> "R29", route_short_name |-> <<"2", "9">>, route_long_name |-> "UQ Lakes - Woolloongabba"],
       [route_id |-> "R411", route_short_name |-> <<"4", "1", "1">>, route_long_name |-> "City - UQ"] >>

\* static-data/trips.txt
TripsFile ==
    << [trip_id |-> "T66", route_id |-> "R66", service_id |-> "WEEK", trip_headsign |-> "RBWH"],
       [trip_id |-> "T6", route_id |-> "R6", service_id |-> "WEEK", trip_headsign |-> "Valley"],
       [trip_id |-> "T29", route_id |-> "R29", service_id |-> "SAT", trip_headsign |-> "Woolloongabba"],
       [trip_id |-> "T411", route_id |-> "R411", service_id |-> "WEEK", trip_headsign |-> "UQ"] >>

Date8(y, m, d) == Dec(y) \o padZero(m) \o padZero(d)

CalendarEntry(id, flags, start, end) ==
    [service_id |-> id, sunday |-> flags[1], monday |-> flags[2], tuesday |-> flags[3],
     wednesday |-> flags[4], thursday |-> flags[5], friday |-> flags[6],
     saturday |-> flags[7], start_date |-> start, end_date |-> end]

\* static-data/calendar.txt
CalendarFile ==
    << CalendarEntry("WEEK", <<"0", "1", "1", "1", "1", "1", "0">>,
                     Date8(2024, 1, 1), Date8(2024, 12, 31)),
       CalendarEntry("SAT", <<"0", "0", "0", "0", "0", "0", "1">>,
                     Date8(2024, 1, 1), Date8(2024, 12, 31)) >>

Clock(h, m, sec) == padZero(h) \o <<":">> \o padZero(m) \o <<":">> \o padZero(sec)

\* static-data/stop_times.txt
StopTimesFile ==
    << [trip_id |-> "T66", stop_id |-> "1853", arrival_time |-> Clock(8, 5, 0)],
       [trip_id |-> "T66", stop_id |-> "600011", arrival_time |-> Clock(8, 6, 0)],
       [trip_id |-> "T6", stop_id |-> "1878", arrival_time |-> Clock(8, 3, 0)],
       [trip_id |-> "T29", stop_id |-> "1882", arrival_time |-> Clock(8, 10, 0)],
       [trip_id |-> "T411", stop_id |-> "1947", arrival_time |-> Clock(8, 1, 0)] >>

\* what the two live feeds serve at time t (epoch seconds)
TripUpdatesFeed(t) ==
    [header |-> [timestamp |-> t],
     entity |->
        << [tripUpdate |-> [trip |-> [tripId |-> "T411"],
                            stopTimeUpdate |-> << [stopId |-> "600011", departure |-> [time |-> t + 30]] >>]],
           [tripUpdate |-> [trip |-> [tripId |-> "T66"],
                            stopTimeUpdate |-> << [stopId |-> "600011", departure |-> [time |-> t + 30]],
                                                  [stopId |-> "1853", departure |-> [time |-> t + 60]] >>]] >>]

VehiclePositionsFeed(t) ==
    [header |-> [timestamp |-> t],
     entity |-> << [vehicle |-> [trip |-> [tripId |-> "T66"], position |-> [at |-> t]]] >>]

FileNames == {"trip_updates", "vehicle_positions"}

\* the content of a cache file: no file, or a text that is empty, a proper
\* prefix of a JSON text, or the JSON text of a value
Missing == [c |-> "missing"]

Empty == [c |-> "empty"]

Partial(data) == [c |-> "partial", of |-> data]

\* JSON.stringify(data)
JsonStringify(data) == [c |-> "json", of |-> data]

\* the string JSON.parse converts its argument to: an array of one string is
\* that string, an empty array the empty string, a promise "[object Promise]"
JsonText(x) ==
    IF x.t = "array"
    THEN IF Len(x.v) = 0 THEN Empty ELSE x.v[1]
    ELSE [c |-> "other"]

\* JSON.parse(x) throws a SyntaxError unless the text is a whole JSON text
JsonParseThrows(x) == JsonText(x).c # "json"

JsonParse(x) == JsonText(x).of

\* zone offsets in minutes: New York (winter), UTC, Brisbane
TimeZones == {0 - 300, 0, 600}

\* seconds the clock may advance by between two queries
TickSteps == {299, 300}

Date10(y, m, d) == Dec(y) \o <<"-">> \o padZero(m) \o <<"-">> \o padZero(d)

\* dates typed at the date prompt: a Monday and a Saturday
UserDates == {Date10(2024, 1, 1), Date10(2024, 1, 6)}

Time5(h, m) == padZero(h) \o <<":">> \o padZero(m)

\* times typed at the time prompt
UserTimes == {Time5(8, 0), Time5(23, 55)}

\* characters typed at the route prompt
RouteAlphabet == {"0", "1", "2", "5", ".", " ", "-", "a"}

RouteInputs == SeqsUpTo(RouteAlphabet, MaxInputLen)

\* answers typed at the repeat prompt
AgainInputs ==
    { <<"y">>, <<"Y", "E", "S">>, <<"y", "e", "s">>, <<"n">>, <<"N", "o">>, <<"n", "o">>,
      <<>>, <<"y", "e">>, <<"o", "n">> }

(***************************************************************************)
(* The state of a session.                                                 *)
(***************************************************************************)
VARIABLES
    pc,                   \* where busTracker stands
    err,                  \* the exception that ended the process, or "none"
    tz,                   \* the zone offset of the machine, in minutes
    now,                  \* the clock, in epoch seconds
    ticks,                \* how often the clock was advanced
    queries,              \* iterations of the loop of busTracker begun
    files,                \* the cache files
    writes,               \* the writeFile operations in flight
    fails,                \* how often saveCache logged "fail"
    currentDate,          \* busTracker: currentDate (epoch seconds)
    trip, calendar, stopTime,               \* busTracker: the lazily loaded tables
    tripUpdateArray, vehiclePositionArray,  \* busTracker: the live data in use
    dateString, time, routeName,            \* one iteration: the user's input
    route,                \* askRouteName: the answer it accepted
    rt, joinedTime, curr,                   \* one iteration: the static joins
    filteredTripUpdates, vehiclePositionsData,  \* one iteration: the fetched feeds
    finalTrips,           \* one iteration: the table printed
    depth,                \* askToSearchAgain: nested calls in progress
    ans,                  \* askToSearchAgain: the last answer, lower case
    call, ret             \* a function under test: its arguments and its result

vars ==
    <<pc, err, tz, now, ticks, queries, files, writes, fails, currentDate, trip,
      calendar, stopTime, tripUpdateArray, vehiclePositionArray, dateString, time,
      route, routeName, rt, joinedTime, curr, filteredTripUpdates,
      vehiclePositionsData, finalTrips, depth, ans, call, ret>>

sessionVars ==
    <<pc, err, now, ticks, queries, files, writes, fails, currentDate, trip,
      calendar, stopTime, tripUpdateArray, vehiclePositionArray, dateString, time,
      route, routeName, rt, joinedTime, curr, filteredTripUpdates,
      vehiclePositionsData, finalTrips, depth, ans>>

iterationVars ==
    <<dateString, time, route, routeName, rt, joinedTime, curr,
      filteredTripUpdates, vehiclePositionsData, finalTrips>>

staticVars == <<trip, calendar, stopTime>>

liveVars == <<tripUpdateArray, vehiclePositionArray>>

diskVars == <<files, writes, fails>>

clockVars == <<now, ticks>>

\* the locals of one iteration of the loop, before they are assigned
FreshIteration ==
    /\ dateString = Undefined
    /\ time = Undefined
    /\ route = Undefined
    /\ routeName = Undefined
    /\ rt = Undefined
    /\ joinedTime = Undefined
    /\ curr = 0
    /\ filteredTripUpdates = Undefined
    /\ vehiclePositionsData = Undefined
    /\ finalTrips = Undefined

\* a cache left by an earlier session at time t
CachedAt(t) ==
    [trip_updates |-> JsonStringify(<<TripUpdatesFeed(t).entity[2]>>),
     vehicle_positions |-> JsonStringify(VehiclePositionsFeed(t))]

NoCache == [f \in FileNames |-> Missing]

\* the locals of the next iteration of the loop
ResetIteration ==
    /\ dateString' = Undefined
    /\ time' = Undefined
    /\ route' = Undefined
    /\ routeName' = Undefined
    /\ rt' = Undefined
    /\ joinedTime' = Undefined
    /\ curr' = 0
    /\ filteredTripUpdates' = Undefined
    /\ vehiclePositionsData' = Undefined
    /\ finalTrips' = Undefined

SessionInit ==
    /\ pc = "askDate"
    /\ err = "none"
    /\ now = 0
    /\ ticks = 0
    /\ queries = 0
    /\ files \in {NoCache, CachedAt(0)}
    /\ writes = {}
    /\ fails = 0
    /\ currentDate = 0
    /\ trip = Undefined
    /\ calendar = Undefined
    /\ stopTime = Undefined
    /\ tripUpdateArray = Undefined
    /\ vehiclePositionArray = Undefined
    /\ FreshIteration
    /\ depth = 0
    /\ ans = <<>>

\* a session on a machine in Brisbane
Init ==
    /\ SessionInit
    /\ tz = 600
    /\ call = [op |-> "none"]
    /\ ret = Undefined

(***************************************************************************)
(* The prompts.                                                            *)
(***************************************************************************)
\* time passes while the program waits at the date prompt
Tick(d) ==
    /\ pc = "askDate"
    /\ ticks < MaxTicks
    /\ now' = now + d
    /\ ticks' = ticks + 1
    /\ UNCHANGED <<pc, err, tz, queries, diskVars, currentDate, staticVars, liveVars,
                   iterationVars, depth, ans, call, ret>>

\* askDate, for an answer it accepts
AskDate(d) ==
    /\ pc = "askDate"
    /\ queries < MaxQueries
    /\ queries' = queries + 1
    /\ dateString' = Str(d)
    /\ pc' = "askTime"
    /\ UNCHANGED <<err, tz, clockVars, diskVars, currentDate, staticVars, liveVars, time,
                   route, routeName, rt, joinedTime, curr, filteredTripUpdates,
                   vehiclePositionsData, finalTrips, depth, ans, call, ret>>

\* askTime, for an answer it accepts
AskTime(t) ==
    /\ pc = "askTime"
    /\ time' = Str(t)
    /\ pc' = "askRoute"
    /\ UNCHANGED <<err, tz, clockVars, queries, diskVars, currentDate, staticVars,
                   liveVars, dateString, route, routeName, rt, joinedTime, curr,
                   filteredTripUpdates, vehiclePositionsData, finalTrips, depth, ans,
                   call, ret>>

\* the test of askRouteName that sends the user back to the prompt
RouteRejected(input) ==
    \/ IsNaN(input)
    \/ NumLe(ToNumber(input), 0)
    \/ NumGt(ToNumber(input), 9)

\* what askRouteName returns for an answer it accepts
RouteSelection(input) ==
    IF input = <<"1">> THEN Arr(buses) ELSE Index(buses, NumMinus(ToNumber(input), 2))

\* askRouteName: one answer at the prompt
AskRouteName(input) ==
    /\ pc = "askRoute"
    /\ IF RouteRejected(input)
       THEN UNCHANGED <<pc, route, routeName>>
       ELSE /\ route' = Str(input)
            /\ routeName' = RouteSelection(input)
            /\ pc' = "static"
    /\ UNCHANGED <<err, tz, clockVars, queries, diskVars, currentDate, staticVars,
                   liveVars, dateString, time, rt, joinedTime, curr,
                   filteredTripUpdates, vehiclePositionsData, finalTrips, depth, ans,
                   call, ret>>

IsYes(a) == a = <<"y">> \/ a = <<"y", "e", "s">>

IsNo(a) == a = <<"n">> \/ a = <<"n", "o">>

\* what the outermost call of askToSearchAgain returns when the call at
\* nesting level d reads the valid answer a: only the outermost call returns
\* its answer, a nested call's value is dropped and undefined is returned
SearchAgainResult(d, a) == IF d = 0 THEN IsYes(a) ELSE FALSE

\* askToSearchAgain: one answer at the prompt, and the branch of busTracker on
\* the value returned
AskToSearchAgain(input) ==
    /\ pc = "askAgain"
    /\ LET a == ToLowerCase(input)
       IN  IF IsYes(a) \/ IsNo(a)
           THEN /\ depth' = 0
                /\ IF SearchAgainResult(depth, a)
                   THEN /\ pc' = "askDate"
                        /\ ans' = <<>>
                        /\ ResetIteration
                   ELSE /\ pc' = "done"
                        /\ ans' = a
                        /\ UNCHANGED iterationVars
           ELSE /\ depth < MaxReprompts
                /\ depth' = depth + 1
                /\ ans' = a
                /\ UNCHANGED <<pc, iterationVars>>
    /\ UNCHANGED <<err, tz, clockVars, queries, diskVars, currentDate, staticVars,
                   liveVars, call, ret>>

(***************************************************************************)
(* The static data of one query.                                           *)
(***************************************************************************)
\* route.includes(name) in parseRouteFile: Array.prototype.includes for the
\* list of all buses, String.prototype.includes for one bus name
RouteIncludes(rn, name) ==
    IF rn.t = "array" THEN ArrayIncludes(rn.v, name) ELSE StringIncludes(rn.v, name)

parseRouteFile(rn) ==
    LET Keep(data) == RouteIncludes(rn, data.route_short_name)
    IN  SelectSeq(RoutesFile, Keep)

parseStopFile ==
    LET Keep(data) == ArrayIncludes(lakesStopId, data.stop_id)
    IN  SelectSeq(StopTimesFile, Keep)

\* busTracker: the Date built from the user's date and time
QueryDate(ds, tm, zone) ==
    LET parts == Split(tm, ":")
    IN  SetMinutes(SetHours(NewDate(ds), zone, ToNumber(parts[1]).m), zone,
                   ToNumber(parts[2]).m)

\* busTracker: the arguments it hands to filterUsingCalendar and joinTime
CalendarDate(ds) == Join(Split(ds, "-"))

CalendarDay(ds, tm, zone) == days[GetDay(QueryDate(ds, tm, zone), zone) + 1]

WindowEnd(ds, tm, zone) == add10Mins(QueryDate(ds, tm, zone), zone)

\* busTracker, from the end of the prompts to the static joins: a route
\* selection of undefined makes parseRouteFile throw on the first record.
\* The files are streamed through the thread pool that runs the writes of the
\* iteration before, which were queued first: the model lets those finish
\* before the stream of routes.txt ends.
StaticData ==
    /\ pc = "static"
    /\ \A w \in writes : w.phase = "failed"
    /\ IF routeName = Undefined /\ RoutesFile # <<>>
       THEN /\ pc' = "crashed"
            /\ err' = "TypeError"
            /\ UNCHANGED <<staticVars, route, rt, joinedTime>>
       ELSE /\ rt' = Arr(parseRouteFile(routeName))
            /\ route' = Undefined
            /\ trip' = IF trip = Undefined THEN Arr(TripsFile) ELSE trip
            /\ calendar' = IF calendar = Undefined THEN Arr(CalendarFile) ELSE calendar
            /\ stopTime' = IF stopTime = Undefined THEN Arr(parseStopFile) ELSE stopTime
            /\ LET joinedRouteTrip == joinRouteTrip(rt'.v, trip'.v)
                   filteredTrips ==
                       filterUsingCalendar(joinedRouteTrip, calendar'.v,
                                           CalendarDate(dateString.v),
                                           CalendarDay(dateString.v, time.v, tz))
               IN  joinedTime' = Arr(joinTime(filteredTrips, stopTime'.v, time.v,
                                              WindowEnd(dateString.v, time.v, tz)))
            /\ pc' = "live"
            /\ UNCHANGED err
    /\ UNCHANGED <<tz, clockVars, queries, diskVars, currentDate, liveVars, dateString,
                   time, routeName, curr, filteredTripUpdates, vehiclePositionsData,
                   finalTrips, depth, ans, call, ret>>

(***************************************************************************)
(* The live data of one query.                                             *)
(***************************************************************************)
\* what readCache resolves to when readFile finds the content `content`:
\* an empty array for no file and for an empty text, else an array of the text
ReadCacheResult(content) ==
    IF content.c \in {"missing", "empty"} THEN Arr(<<>>) ELSE Arr(<<content>>)

\* the test of staleness in busTracker:
\* (timestamp - currentDate.getTime()) / 60000 >= 5, getTime() in milliseconds
StaleTest(vpa) == vpa.header.timestamp - 1000 * currentDate >= 5 * 60000

\* the filter applied to the fetched trip updates
HasLakesStop(entity) ==
    \E i \in 1..Len(entity.tripUpdate.stopTimeUpdate) :
        IsLakesStop(entity.tripUpdate.stopTimeUpdate[i])

Crash(e) ==
    /\ pc' = "crashed"
    /\ err' = e

\* busTracker, the reads of the cache and the branch on them: the promise of
\* the first readCache is not awaited, and a promise has no length
ReadCache ==
    /\ pc = "live"
    /\ curr' = now
    /\ LET tua == Promise
           vpa == ReadCacheResult(files["vehicle_positions"])
       IN  IF Not(JsLength(tua)) \/ Not(JsLength(vpa))
           THEN /\ tripUpdateArray' = tua
                /\ vehiclePositionArray' = vpa
                /\ pc' = "fetch"
                /\ UNCHANGED err
           ELSE IF JsonParseThrows(tua) \/ JsonParseThrows(vpa)
                THEN /\ Crash("SyntaxError")
                     /\ tripUpdateArray' = tua
                     /\ vehiclePositionArray' = vpa
                ELSE /\ tripUpdateArray' = Arr(JsonParse(tua))
                     /\ vehiclePositionArray' = Obj(JsonParse(vpa))
                     /\ pc' = IF StaleTest(JsonParse(vpa)) THEN "fetch" ELSE "merge"
                     /\ UNCHANGED err
    /\ UNCHANGED <<tz, clockVars, queries, diskVars, currentDate, staticVars, dateString,
                   time, route, routeName, rt, joinedTime, filteredTripUpdates,
                   vehiclePositionsData, finalTrips, depth, ans, call, ret>>

\* busTracker: both feeds fetched, the trip updates filtered
Fetch ==
    /\ pc = "fetch"
    /\ vehiclePositionsData' = Obj(VehiclePositionsFeed(now))
    /\ filteredTripUpdates' = Arr(SelectSeq(TripUpdatesFeed(now).entity, HasLakesStop))
    /\ pc' = "save"
    /\ UNCHANGED <<err, tz, clockVars, queries, diskVars, currentDate, staticVars,
                   liveVars, dateString, time, route, routeName, rt, joinedTime, curr,
                   finalTrips, depth, ans, call, ret>>

\* a writeFile operation started by saveCache in iteration `queries`: it has
\* yet to open the file ("open"), then to write the text ("write"); one that
\* ended with an error stays on record ("failed")
WriteOp(filename, data) ==
    [file |-> filename, text |-> JsonStringify(data), phase |-> "open", query |-> queries]

\* busTracker: the two calls of saveCache, which start the writes and return
SaveCache ==
    /\ pc = "save"
    /\ writes' = writes \cup {WriteOp("trip_updates", filteredTripUpdates.v),
                              WriteOp("vehicle_positions", vehiclePositionsData.v)}
    /\ pc' = "openTripUpdates"
    /\ UNCHANGED <<err, tz, clockVars, queries, files, fails, currentDate, staticVars,
                   liveVars, iterationVars, depth, ans, call, ret>>

\* writeFile opens the file: it is created or truncated
WriteOpen(w) ==
    /\ pc # "crashed"
    /\ w.phase = "open"
    /\ files' = [files EXCEPT ![w.file] = Empty]
    /\ writes' = (writes \ {w}) \cup {[w EXCEPT !.phase = "write"]}
    /\ UNCHANGED <<pc, err, tz, clockVars, queries, fails, currentDate, staticVars,
                   liveVars, iterationVars, depth, ans, call, ret>>

\* writeFile cannot open the file: the callback of saveCache logs "fail"
WriteFail(w) ==
    /\ pc # "crashed"
    /\ w.phase = "open"
    /\ writes' = (writes \ {w}) \cup {[w EXCEPT !.phase = "failed"]}
    /\ fails' = fails + 1
    /\ UNCHANGED <<pc, err, tz, clockVars, queries, files, currentDate, staticVars,
                   liveVars, iterationVars, depth, ans, call, ret>>

\* writeFile has written a first part of the text
WritePart(w) ==
    /\ pc # "crashed"
    /\ w.phase = "write"
    /\ files[w.file] = Empty
    /\ files' = [files EXCEPT ![w.file] = Partial(w.text.of)]
    /\ UNCHANGED <<pc, err, tz, clockVars, queries, writes, fails, currentDate,
                   staticVars, liveVars, iterationVars, depth, ans, call, ret>>

\* writeFile has written the whole text
WriteDone(w) ==
    /\ pc # "crashed"
    /\ w.phase = "write"
    /\ files' = [files EXCEPT ![w.file] = w.text]
    /\ writes' = writes \ {w}
    /\ UNCHANGED <<pc, err, tz, clockVars, queries, fails, currentDate, staticVars,
                   liveVars, iterationVars, depth, ans, call, ret>>

\* the file and the variable of the readCache call busTracker waits for
ReadTarget == IF pc \in {"openTripUpdates", "readTripUpdates"}
              THEN "trip_updates" ELSE "vehicle_positions"

AfterRead == IF ReadTarget = "trip_updates" THEN "openVehiclePositions" ELSE "parse"

SetRead(result) ==
    IF ReadTarget = "trip_updates"
    THEN tripUpdateArray' = result /\ UNCHANGED vehiclePositionArray
    ELSE vehiclePositionArray' = result /\ UNCHANGED tripUpdateArray

\* readFile opens the file: without a file (ENOENT) readCache resolves to []
ReadOpen ==
    /\ pc \in {"openTripUpdates", "openVehiclePositions"}
    /\ IF files[ReadTarget] = Missing
       THEN /\ SetRead(ReadCacheResult(Missing))
            /\ pc' = AfterRead
       ELSE /\ pc' = IF ReadTarget = "trip_updates"
                     THEN "readTripUpdates" ELSE "readVehiclePositions"
            /\ UNCHANGED liveVars
    /\ UNCHANGED <<err, tz, clockVars, queries, diskVars, currentDate, staticVars,
                   iterationVars, depth, ans, call, ret>>

\* readFile reads the text the file holds at that time
ReadData ==
    /\ pc \in {"readTripUpdates", "readVehiclePositions"}
    /\ SetRead(ReadCacheResult(files[ReadTarget]))
    /\ pc' = AfterRead
    /\ UNCHANGED <<err, tz, clockVars, queries, diskVars, currentDate, staticVars,
                   iterationVars, depth, ans, call, ret>>

\* busTracker: JSON.parse of what the two readCache calls gave
Parse ==
    /\ pc = "parse"
    /\ IF JsonParseThrows(tripUpdateArray) \/ JsonParseThrows(vehiclePositionArray)
       THEN /\ Crash("SyntaxError")
            /\ UNCHANGED liveVars
       ELSE /\ tripUpdateArray' = Arr(JsonParse(tripUpdateArray))
            /\ vehiclePositionArray' = Obj(JsonParse(vehiclePositionArray))
            /\ pc' = "merge"
            /\ UNCHANGED err
    /\ UNCHANGED <<tz, clockVars, queries, diskVars, currentDate, staticVars,
                   iterationVars, depth, ans, call, ret>>

\* busTracker: the live joins and the sort of the table printed
Merge ==
    /\ pc = "merge"
    /\ LET joinedLiveTime == joinLiveTime(joinedTime.v, tripUpdateArray.v, tz)
       IN  finalTrips' = Arr(Sort(joinLivePosition(joinedLiveTime,
                                                   vehiclePositionArray.v.entity)))
    /\ pc' = "askAgain"
    /\ UNCHANGED <<err, tz, clockVars, queries, diskVars, currentDate, staticVars,
                   liveVars, dateString, time, route, routeName, rt, joinedTime, curr,
                   filteredTripUpdates, vehiclePositionsData, depth, ans, call, ret>>

Next ==
    \/ \E d \in TickSteps : Tick(d)
    \/ \E d \in UserDates : AskDate(d)
    \/ \E t \in UserTimes : AskTime(t)
    \/ \E input \in RouteInputs : AskRouteName(input)
    \/ StaticData
    \/ ReadCache
    \/ Fetch
    \/ SaveCache
    \/ \E w \in writes : WriteOpen(w)
    \/ \E w \in writes : WriteFail(w)
    \/ \E w \in writes : WritePart(w)
    \/ \E w \in writes : WriteDone(w)
    \/ ReadOpen
    \/ ReadData
    \/ Parse
    \/ Merge
    \/ \E input \in AgainInputs : AskToSearchAgain(input)

Spec == Init /\ [][Next]_vars

(***************************************************************************)
(* The joins and filters on their own: a call is drawn from a bounded set  *)
(* of arguments, and one step applies the function to it.                  *)
(***************************************************************************)
\* no session runs while a function is under test
NoSession ==
    /\ pc = "test"
    /\ err = "none"
    /\ now = 0
    /\ ticks = 0
    /\ queries = 0
    /\ files = NoCache
    /\ writes = {}
    /\ fails = 0
    /\ currentDate = 0
    /\ trip = Undefined
    /\ calendar = Undefined
    /\ stopTime = Undefined
    /\ tripUpdateArray = Undefined
    /\ vehiclePositionArray = Undefined
    /\ FreshIteration
    /\ depth = 0
    /\ ans = <<>>

\* a departure as joinRouteTrip builds it
Departure(tripId, serviceId) ==
    [RouteShortName |-> <<"6", "6">>, RouteLongName |-> "UQ Lakes - RBWH",
     ServiceID |-> serviceId, TripID |-> tripId, HeadingSign |-> "RBWH"]

TestDepartures ==
    SeqsUpTo({Departure("T66", "WEEK"), Departure("T29", "SAT")}, MaxDepartures)

\* calendar records: two services, Monday on or off, Tuesday on, three ranges
\* of dates, one of them a single day
TestRanges ==
    { <<Date8(2024, 1, 1), Date8(2024, 1, 31)>>,
      <<Date8(2024, 1, 2), Date8(2024, 1, 2)>>,
      <<Date8(2023, 12, 31), Date8(2024, 2, 1)>> }

TestCalendarEntries ==
    { CalendarEntry(id, <<"0", mon, "1", "0", "0", "0", "0">>, r[1], r[2]) :
        id \in {"WEEK", "SAT"}, mon \in {"0", "1"}, r \in TestRanges }

TestDates ==
    { Date8(2023, 12, 30), Date8(2023, 12, 31), Date8(2024, 1, 1), Date8(2024, 1, 2),
      Date8(2024, 1, 31), Date8(2024, 2, 1), Date8(2024, 2, 2) }

CalendarCalls ==
    [op : {"filterUsingCalendar"},
     routes : TestDepartures,
     calendarArray : SeqsUpTo(TestCalendarEntries, MaxCalendar),
     date : TestDates,
     day : {"monday", "tuesday"}]

InitCalendar ==
    /\ NoSession
    /\ tz = 600
    /\ call \in CalendarCalls
    /\ ret = Undefined

ApplyFilterUsingCalendar ==
    /\ call.op = "filterUsingCalendar"
    /\ ret = Undefined
    /\ ret' = Arr(filterUsingCalendar(call.routes, call.calendarArray, call.date, call.day))
    /\ UNCHANGED <<sessionVars, tz, call>>

SpecCalendar == InitCalendar /\ [][ApplyFilterUsingCalendar]_vars

\* stop-time rows of the station: two trips, arrival times around the window
\* of 08:00 and around midnight
TestArrivals ==
    { Clock(7, 59, 59), Clock(8, 0, 0), Clock(8, 9, 59), Clock(8, 10, 0), Clock(8, 10, 1),
      Clock(23, 59, 0), Clock(0, 5, 0), Clock(24, 5, 0) }

TestStops ==
    [trip_id : {"T66", "T411"}, stop_id : {"1853"}, arrival_time : TestArrivals]

JoinTimeCalls ==
    [op : {"joinTime"},
     routes : TestDepartures,
     stops : SeqsUpTo(TestStops, MaxStops),
     date : {Date10(2024, 1, 1)},
     time : {Time5(8, 0), Time5(7, 59), Time5(23, 55)}]

InitJoinTime ==
    /\ NoSession
    /\ tz \in TimeZones
    /\ call \in JoinTimeCalls
    /\ ret = Undefined

\* joinTime as busTracker calls it: the window from the user's time to the
\* result of add10Mins
ApplyJoinTime ==
    /\ call.op = "joinTime"
    /\ ret = Undefined
    /\ ret' = Arr(joinTime(call.routes, call.stops, call.time,
                           WindowEnd(call.date, call.time, tz)))
    /\ UNCHANGED <<sessionVars, tz, call>>

SpecJoinTime == InitJoinTime /\ [][ApplyJoinTime]_vars

\* departures as joinTime builds them
TimedDeparture(tripId) ==
    With(Departure(tripId, "WEEK"), "ScheduledArrivalTime", Clock(8, 5, 0))

TestTimedDepartures == SeqsUpTo({TimedDeparture("T66"), TimedDeparture("T29")}, MaxDepartures)

\* trip-update entities: for T66 a station stop after another stop, a station
\* stop with another time, or no station stop; for T411 a station stop
TripUpdateEntity(tripId, stopTimeUpdate) ==
    [tripUpdate |-> [trip |-> [tripId |-> tripId], stopTimeUpdate |-> stopTimeUpdate]]

StopUpdate(stopId, t) == [stopId |-> stopId, departure |-> [time |-> t]]

TestTripUpdates ==
    { TripUpdateEntity("T66", <<StopUpdate("600011", 30), StopUpdate("1878", 60)>>),
      TripUpdateEntity("T66", <<StopUpdate("1853", 3725), StopUpdate("1878", 60)>>),
      TripUpdateEntity("T66", <<StopUpdate("600011", 30)>>),
      TripUpdateEntity("T411", <<StopUpdate("1853", 60)>>) }

VehicleEntity(tripId, at) == [vehicle |-> [trip |-> [tripId |-> tripId], position |-> [at |-> at]]]

TestVehicles == {VehicleEntity("T66", 1), VehicleEntity("T66", 2), VehicleEntity("T411", 3)}

MergeCalls ==
    [op : {"merge"},
     routes : TestTimedDepartures,
     timeArray : SeqsUpTo(TestTripUpdates, MaxEntities),
     posArray : SeqsUpTo(TestVehicles, MaxEntities)]

InitMerge ==
    /\ NoSession
    /\ tz \in TimeZones
    /\ call \in MergeCalls
    /\ ret = Undefined

ApplyJoinLiveTime ==
    /\ call.op = "merge"
    /\ ret = Undefined
    /\ ret' = [t |-> "timed", v |-> joinLiveTime(call.routes, call.timeArray, tz)]
    /\ UNCHANGED <<sessionVars, tz, call>>

\* joinLivePosition as busTracker calls it, on the result of joinLiveTime
ApplyJoinLivePosition ==
    /\ call.op = "merge"
    /\ ret.t = "timed"
    /\ ret' = [t |-> "merged", timed |-> ret.v, v |-> joinLivePosition(ret.v, call.posArray)]
    /\ UNCHANGED <<sessionVars, tz, call>>

NextMerge ==
    \/ ApplyJoinLiveTime
    \/ ApplyJoinLivePosition

SpecMerge == InitMerge /\ [][NextMerge]_vars

\* every time of day HH:mm
AllTimes == {Time5(h, m) : h \in 0..23, m \in 0..59}

\* a Monday, a Saturday, a leap day, the last day of a year
WindowDates ==
    {Date10(2024, 1, 1), Date10(2024, 1, 6), Date10(2024, 2, 29), Date10(2023, 12, 31)}

\* stop-time rows around midnight, one for each second of interest
ProbeStops ==
    << [trip_id |-> "T66", stop_id |-> "1853", arrival_time |-> Clock(23, 50, 0)],
       [trip_id |-> "T66", stop_id |-> "1853", arrival_time |-> Clock(23, 59, 59)],
       [trip_id |-> "T66", stop_id |-> "1853", arrival_time |-> Clock(0, 0, 0)],
       [trip_id |-> "T66", stop_id |-> "1853", arrival_time |-> Clock(0, 9, 0)],
       [trip_id |-> "T66", stop_id |-> "1853", arrival_time |-> Clock(24, 0, 0)],
       [trip_id |-> "T66", stop_id |-> "1853", arrival_time |-> Clock(24, 9, 0)] >>

WindowCalls == [op : {"window"}, date : WindowDates, time : AllTimes]

InitWindow ==
    /\ NoSession
    /\ tz \in TimeZones
    /\ call \in WindowCalls
    /\ ret = Undefined

\* what busTracker computes from the user's date and time: the weekday and
\* the date for filterUsingCalendar, then the window for joinTime
ApplyWindow ==
    /\ call.op = "window"
    /\ ret = Undefined
    /\ ret' = [t |-> "window",
               day |-> CalendarDay(call.date, call.time, tz),
               date |-> CalendarDate(call.date),
               start |-> call.time,
               end |-> WindowEnd(call.date, call.time, tz),
               rows |-> joinTime(<<Departure("T66", "WEEK")>>, ProbeStops, call.time,
                                 WindowEnd(call.date, call.time, tz))]
    /\ UNCHANGED <<sessionVars, tz, call>>

SpecWindow == InitWindow /\ [][ApplyWindow]_vars

(***************************************************************************)
(* Properties of the joins and filters.                                    *)
(***************************************************************************)
\* the number a date YYYYMMDD stands for
DateValue(d) == DigitsValue(d)

\* a calendar record of the departure's service has the weekday active and
\* the date within its first and last day
RunsOn(dep, calendarArray, date, day) ==
    \E i \in 1..Len(calendarArray) :
        /\ calendarArray[i].service_id = dep.ServiceID
        /\ calendarArray[i][day] = "1"
        /\ DateValue(calendarArray[i].start_date) <= DateValue(date)
        /\ DateValue(date) <= DateValue(calendarArray[i].end_date)

\* C4: filterUsingCalendar returns, in their order and each once, the
\* departures for which a calendar record of the same service_id has the
\* weekday active and start_date <= date <= end_date, both ends included;
\* the others are dropped
C4_FilterUsingCalendar ==
    (call.op = "filterUsingCalendar" /\ ret.t = "array") =>
        LET Kept(dep) == RunsOn(dep, call.calendarArray, call.date, call.day)
        IN  ret.v = SelectSeq(call.routes, Kept)

\* a departure kept on the last day of its only calendar record, next to one
\* dropped for want of a record
C4_Witness ==
    /\ call.op = "filterUsingCalendar"
    /\ ret.t = "array"
    /\ Len(call.calendarArray) = 1
    /\ call.date = call.calendarArray[1].end_date
    /\ call.date # call.calendarArray[1].start_date
    /\ Len(call.routes) = 2
    /\ Len(ret.v) = 1
    /\ ret.v[1] = call.routes[2]

\* seconds since midnight of a clock time HH:mm or HH:mm:ss
ClockSeconds(c) ==
    LET p == Split(c, ":")
    IN  3600 * DigitsValue(p[1]) + 60 * DigitsValue(p[2])
            + (IF Len(p) > 2 THEN DigitsValue(p[3]) ELSE 0)

\* C5: for the window busTracker passes (the user's time HH:mm, the result of
\* add10Mins), joinTime returns one row for each stop-time row, in their
\* order and without deduplication, whose trip_id is that of a departure and
\* whose arrival_time lies in [HH:mm:00, end], both ends included
C5_JoinTimeWindow ==
    (call.op = "joinTime" /\ ret.t = "array") =>
        LET end == WindowEnd(call.date, call.time, tz)
            Qualifies(stop) ==
                /\ \E i \in 1..Len(call.routes) : call.routes[i].TripID = stop.trip_id
                /\ ClockSeconds(call.time) <= ClockSeconds(stop.arrival_time)
                /\ ClockSeconds(stop.arrival_time) <= ClockSeconds(end)
            q == SelectSeq(call.stops, Qualifies)
            DepartureOf(stop) ==
                call.routes[CHOOSE i \in 1..Len(call.routes) :
                    /\ call.routes[i].TripID = stop.trip_id
                    /\ \A j \in 1..(i - 1) : call.routes[j].TripID # stop.trip_id]
        IN  /\ Len(ret.v) = Len(q)
            /\ \A i \in 1..Len(q) :
                   ret.v[i] = With(DepartureOf(q[i]), "ScheduledArrivalTime", q[i].arrival_time)

\* the window of 08:00: two rows of one trip, at 08:00:00 and at 08:10:00
C5_Witness ==
    /\ call.op = "joinTime"
    /\ ret.t = "array"
    /\ call.time = Time5(8, 0)
    /\ Len(ret.v) = 2
    /\ ret.v[1].TripID = ret.v[2].TripID
    /\ ret.v[1].ScheduledArrivalTime = Clock(8, 0, 0)
    /\ ret.v[2].ScheduledArrivalTime = Clock(8, 10, 0)

\* the first of the trip ids that is tripId, 0 when there is none
FirstOfTrip(tripIds, tripId) ==
    IF \A j \in 1..Len(tripIds) : tripIds[j] # tripId THEN 0
    ELSE CHOOSE j \in 1..Len(tripIds) :
            /\ tripIds[j] = tripId
            /\ \A k \in 1..(j - 1) : tripIds[k] # tripId

TripOfUpdate(timeArray) ==
    [j \in 1..Len(timeArray) |-> timeArray[j].tripUpdate.trip.tripId]

TripOfVehicle(posArray) ==
    [j \in 1..Len(posArray) |-> posArray[j].vehicle.trip.tripId]

\* the live arrival time a departure is due: the converted departure time of
\* the first station stop of the first entity of its trip, else the sentinel
LiveTimeDue(dep, timeArray) ==
    LET e == FirstOfTrip(TripOfUpdate(timeArray), dep.TripID)
    IN  IF e = 0 THEN NoLiveData
        ELSE LET u == timeArray[e].tripUpdate.stopTimeUpdate
                 S == {k \in 1..Len(u) : u[k].stopId \in {"1853", "1878", "1882", "1947"}}
             IN  IF S = {} THEN NoLiveData
                 ELSE convertTime(u[CHOOSE k \in S : \A l \in S : k <= l].departure.time, tz)

\* the live position a departure is due: that of the first entity of its
\* trip, else the sentinel
LivePositionDue(dep, posArray) ==
    LET e == FirstOfTrip(TripOfVehicle(posArray), dep.TripID)
    IN  IF e = 0 THEN Str(NoLiveData) ELSE Obj(posArray[e].vehicle.position)

\* C6: joinLiveTime and joinLivePosition are left joins: the output has the
\* length and the order of the input, each departure appears once with its
\* fields unchanged, and its live field is the value of the first entity with
\* its trip_id or the sentinel "No Live Data"
C6_LeftJoins ==
    (call.op = "merge" /\ ret.t \in {"timed", "merged"}) =>
        LET timed == IF ret.t = "timed" THEN ret.v ELSE ret.timed
        IN  /\ Len(timed) = Len(call.routes)
            /\ \A i \in 1..Len(timed) :
                   timed[i] = With(call.routes[i], "LiveArrivalTime",
                                   LiveTimeDue(call.routes[i], call.timeArray))
            /\ ret.t = "merged" =>
                   /\ Len(ret.v) = Len(timed)
                   /\ \A i \in 1..Len(timed) :
                          /\ DOMAIN ret.v[i] = (DOMAIN timed[i] \ {"TripID"}) \cup {"LivePosition"}
                          /\ \A f \in DOMAIN timed[i] \ {"TripID"} : ret.v[i][f] = timed[i][f]
                          /\ ret.v[i].LivePosition = LivePositionDue(timed[i], call.posArray)

\* two entities of one trip with different values, the first one taken, next
\* to a departure left with the sentinel in both fields
C6_Witness ==
    /\ call.op = "merge"
    /\ ret.t = "merged"
    /\ Len(ret.v) = 2
    /\ Len(call.posArray) = 2
    /\ call.posArray[1].vehicle.trip.tripId = call.posArray[2].vehicle.trip.tripId
    /\ call.posArray[1].vehicle.position # call.posArray[2].vehicle.position
    /\ ret.v[1].LivePosition = Obj(call.posArray[1].vehicle.position)
    /\ ret.v[1].LiveArrivalTime # NoLiveData
    /\ ret.v[2].LivePosition = Str(NoLiveData)
    /\ ret.v[2].LiveArrivalTime = NoLiveData

(***************************************************************************)
(* Properties of a session.                                                *)
(***************************************************************************)
\* C1: when busTracker reads the cache and both cache files hold a snapshot,
\* that of the vehicle positions with header timestamp T, the feeds are
\* fetched if and only if now - T >= 300 seconds; otherwise the cached
\* versions are used unmodified.  In the first and in every later query.
C1_RefetchIffStale ==
    [][(/\ pc = "live"
        /\ pc' # "live"
        /\ files["trip_updates"].c = "json"
        /\ files["vehicle_positions"].c = "json")
       => IF now - files["vehicle_positions"].of.header.timestamp >= 300
          THEN pc' = "fetch"
          ELSE /\ pc' = "merge"
               /\ tripUpdateArray' = Arr(files["trip_updates"].of)
               /\ vehiclePositionArray' = Obj(files["vehicle_positions"].of)]_vars

\* C2: after a refresh the live data that the query merges are the payloads
\* just fetched, under every interleaving of the writes of saveCache with the
\* reads of readCache; no read yields a missing, empty or partial text, which
\* JSON.parse rejects
C2_RefreshReadsBack ==
    /\ err # "SyntaxError"
    /\ (pc = "merge" /\ filteredTripUpdates.t = "array") =>
           /\ tripUpdateArray = filteredTripUpdates
           /\ vehiclePositionArray = vehiclePositionsData

\* a write of this iteration ended with an error
WriteFailed == \E w \in writes : w.phase = "failed" /\ w.query = queries

\* the table due from the feeds fetched in this iteration
TripsFromFetched ==
    Arr(Sort(joinLivePosition(joinLiveTime(joinedTime.v, filteredTripUpdates.v, tz),
                              vehiclePositionsData.v.entity)))

\* C3: a failed write of a cache file is only logged: the query is not ended
\* by an error and prints the table of the data it fetched, as when the
\* write succeeds
C3_WriteFailureHarmless ==
    WriteFailed =>
        /\ fails > 0
        /\ pc # "crashed"
        /\ pc = "askAgain" => finalTrips = TripsFromFetched

IsBus(name) == \E i \in 1..Len(buses) : buses[i] = name

\* C7: for one selected bus parseRouteFile loads the records whose
\* route_short_name equals its name, and every row printed is of that route;
\* for option 1 it loads the records of the eight station buses
C7_RoutesOfSelection ==
    (rt.t = "array" /\ routeName.t \in {"string", "array"}) =>
        LET Selected(data) ==
                IF routeName.t = "string"
                THEN data.route_short_name = routeName.v
                ELSE IsBus(data.route_short_name)
        IN  /\ rt.v = SelectSeq(RoutesFile, Selected)
            /\ (routeName.t = "string" /\ finalTrips.t = "array") =>
                   \A i \in 1..Len(finalTrips.v) :
                       finalTrips.v[i].RouteShortName = routeName.v

\* C8: the session ends only when the first valid answer at the repeat
\* prompt is n or no; invalid answers before it change nothing
C8_EndsOnlyOnNo == pc = "done" => IsNo(ans)

\* C9: an answer askRouteName accepts gives the list of the eight buses or
\* one bus of it, so that no query runs with an undefined selection or is
\* ended by an error of parseRouteFile
C9_AcceptedRouteIsValid ==
    /\ err # "TypeError"
    /\ pc \in {"static", "live", "fetch", "save", "merge", "askAgain"} =>
           \/ routeName = Arr(buses)
           \/ routeName.t = "string" /\ IsBus(routeName.v)

(***************************************************************************)
(* Properties of the time window.                                          *)
(***************************************************************************)
\* the weekday of a civil date, 0 for Sunday (Sakamoto's method)
WeekdayOf(y, m, d) ==
    LET t == <<0, 3, 2, 5, 0, 3, 5, 1, 4, 6, 2, 4>>
        yy == IF m < 3 THEN y - 1 ELSE y
    IN  (yy + yy \div 4 - yy \div 100 + yy \div 400 + t[m] + d) % 7

\* minutes since midnight of a time HH:mm
MinuteOfDay(tm) == ClockSeconds(tm) \div 60

\* the window end is the clock time ten minutes after the user's, modulo a
\* day, with seconds 00; from 23:50 on it is smaller than the window start
\* and joinTime returns nothing
WindowEndWraps ==
    (call.op = "window" /\ ret.t = "window") =>
        LET e == (MinuteOfDay(call.time) + 10) % 1440
        IN  /\ ret.end = Clock(e \div 60, e % 60, 0)
            /\ ret.date = SelectSeq(call.date, IsDigit)
            /\ MinuteOfDay(call.time) >= 23 * 60 + 50 =>
                   /\ StrLess(ret.end, ret.start)
                   /\ ret.rows = <<>>

\* C10: for every user time the window end is the clock time
\* (60*HH + mm + 10) mod 1440 with seconds 00, the weekday and the date of
\* the calendar filter are those of the user's date, and from 23:50 on the
\* window is empty
C10_WindowOfUserTime ==
    (call.op = "window" /\ ret.t = "window") =>
        LET p == Split(call.date, "-")
        IN  /\ WindowEndWraps
            /\ ret.day = days[WeekdayOf(DigitsValue(p[1]), DigitsValue(p[2]),
                                        DigitsValue(p[3])) + 1]
=============================================================================
